---- MODULE Spec2Model ----
(***************************************************************************)
(* Model of libs/prebuilt/langgraph/prebuilt/ui.py: the two producers      *)
(* push_ui_message and remove_ui_message, and the reducer                  *)
(* reduce_ui_messages that folds their events into the UI state.           *)
(*                                                                         *)
(* Python values are modelled as follows.  A dict is a TLA+ function from  *)
(* its string keys to its values; d.get(k) is Get(d, k).  A value whose    *)
(* run-time type the code inspects (isinstance, hasattr, truthiness) is a  *)
(* record [py |-> <type name>, v |-> <content>].  Python's None is the     *)
(* token None, which no caller-supplied string equals.                     *)
(***************************************************************************)
EXTENDS Integers, Sequences, FiniteSets, TLC

VARIABLES
    ui,       \* the state stored under the state key: a list of UI messages
    folds,    \* history: the right argument of every fold of ui so far, in order
    rcall,    \* the last call of reduce_ui_messages: arguments and result
    calls,    \* history: every call of reduce_ui_messages so far, in order
    config,   \* get_config(): the ambient run context
    stream,   \* what the stream writer has accepted, in order
    writes,   \* what config[CONF][CONFIG_KEY_SEND] has accepted, in order
    minted,   \* number of uuid4() tokens minted so far
    pcall     \* the last call of a producer: arguments and outcome

vars == <<ui, folds, rcall, calls, config, stream, writes, minted, pcall>>

\* ------------------------------------------------------------------ bounds

\* Most folds of ui in one behaviour.
MaxFolds == 3

\* Most events folded into ui in one behaviour, over all its folds.
MaxApplied == 3

\* Most producer calls in one behaviour.
MaxCalls == 3

\* Most producer calls in one behaviour when metadata and message vary.
MaxMetaCalls == 2

\* Longest list handed to a single direct call of the reducer.
MaxArgLen == 2

\* Most direct calls of the reducer in one behaviour when calls repeat.
MaxRepeat == 3

\* ------------------------------------------------------------ Python values

None == "None"

EmptyDict == [k \in {} |-> None]

\* d.get(k): the value under k, or None when the key is missing.
Get(d, k) == IF k \in DOMAIN d THEN d[k] ELSE None

\* A Python list object and a Python dict object, as passed in an argument.
PyList(s) == [py |-> "list", v |-> s]

PyDict(d) == [py |-> "dict", v |-> d]

\* The None object, and an object of a class with instance attributes attrs.
PyNone == [py |-> "NoneType"]

PyObject(attrs) == [py |-> "object", v |-> attrs]

\* Truth value of a str-or-None value.
Truthy(s) == s # None /\ s # ""

\* Truth value of an object: None and the empty dict are false.
TruthyObj(x) ==
    CASE x.py = "NoneType" -> FALSE
      [] x.py = "dict" -> DOMAIN x.v # {}
      [] OTHER -> TRUE

\* hasattr(x, a): dicts and None have no such attribute.
HasAttr(x, a) == x.py = "object" /\ a \in DOMAIN x.v

\* {**f, **g}: the keys of both, g's value where both define one.
Merge(f, g) ==
    [k \in DOMAIN f \cup DOMAIN g |-> IF k \in DOMAIN g THEN g[k] ELSE f[k]]

\* str(uuid4()) of the n-th call of uuid4: a token no earlier call returned.
Uuid(n) == "uuid-" \o ToString(n)

\* ------------------------------------------------------------------ events

\* A UIMessage dict.
UIMessage(id, name, props, metadata) ==
    [type |-> "ui", id |-> id, name |-> name, props |-> props, metadata |-> metadata]

\* A RemoveUIMessage dict.
RemoveUIMessage(id) == [type |-> "remove-ui", id |-> id]

\* ----------------------------------------------------------------- reducer

\* Mutant of Comprehension: an entry is compared with the removal event's id.
ComprehensionById(new_state, m) ==
    SelectSeq(new_state, LAMBDA x : Get(x, "id") # Get(m, "id"))

\* Mutant of Comprehension: keeps every entry.
ComprehensionKeepAll(new_state, m) == new_state

\* [m for m in new_state if m.get("id") != m.get("id")]: the comprehension's
\* own variable m hides the loop's m, so both sides read the same entry.
Comprehension(new_state, m) ==
    SelectSeq(new_state, LAMBDA x : Get(x, "id") # Get(x, "id"))

\* Mutant of LoopBody: an upsert replaces the entries with its id.
LoopBodyReplace(new_state, m) ==
    IF Get(m, "type") = "remove-ui"
    THEN Comprehension(new_state, m)
    ELSE Append(SelectSeq(new_state, LAMBDA x : Get(x, "id") # Get(m, "id")), m)

\* Mutant of LoopBody: an upsert is put in front.
LoopBodyPrepend(new_state, m) ==
    IF Get(m, "type") = "remove-ui"
    THEN Comprehension(new_state, m)
    ELSE <<m>> \o new_state

\* Mutant of LoopBody: only a "ui" event is appended, any other is dropped.
LoopBodySkipOther(new_state, m) ==
    IF Get(m, "type") = "remove-ui"
    THEN Comprehension(new_state, m)
    ELSE IF Get(m, "type") = "ui" THEN Append(new_state, m) ELSE new_state

\* Mutant of LoopBody: the removal event is stored as well.
LoopBodyKeepRemoval(new_state, m) ==
    IF Get(m, "type") = "remove-ui"
    THEN Append(Comprehension(new_state, m), m)
    ELSE Append(new_state, m)

\* One iteration of "for m in right".
LoopBody(new_state, m) ==
    IF Get(m, "type") = "remove-ui"
    THEN Comprehension(new_state, m)
    ELSE Append(new_state, m)

\* Mutant of Loop: the removals of a batch are applied first, then its other
\* events are appended.
LoopRemovalsFirst(new_state, right) ==
    (IF \E i \in DOMAIN right : Get(right[i], "type") = "remove-ui"
     THEN Comprehension(new_state, right[1])
     ELSE new_state)
    \o SelectSeq(right, LAMBDA m : Get(m, "type") # "remove-ui")

RECURSIVE Loop(_, _)
\* "for m in right", from new_state on.
Loop(new_state, right) ==
    IF right = <<>>
    THEN new_state
    ELSE Loop(LoopBody(new_state, Head(right)), Tail(right))

\* Mutant of AsList: a bare event is taken for its own items, none of them an
\* event, so nothing of it reaches the loop.
AsListDropBare(x) == IF x.py = "list" THEN x.v ELSE <<>>

\* "if not isinstance(x, list): x = [x]".
AsList(x) == IF x.py = "list" THEN x.v ELSE <<x.v>>

\* Mutant of reduce_ui_messages: new_state lives across calls (a module-level
\* list), so a call starts from what the call before it returned.
reduce_ui_messagesKeepsState(left, right) ==
    Loop((IF rcall.op = "reduce" THEN rcall.out ELSE <<>>) \o AsList(left), AsList(right))

\* reduce_ui_messages(left, right): the list it returns.
reduce_ui_messages(left, right) == Loop(AsList(left), AsList(right))

\* Mutant of CopyShares: new_state is left itself, no copy is made.
CopySharesList(left) == left.py = "list"

\* Whether new_state at line 183 is the same list object as the caller's left:
\* left.copy() is a new list, and so is [left] for a bare event.
CopyShares(left) == FALSE

RECURSIVE LoopEffect(_, _, _, _)
\* The loop followed on the list objects: new_state's content, and the content
\* of the caller's left list, which changes only while new_state is that same
\* object (shared) and is appended to in place; the comprehension binds
\* new_state to a new list.
LoopEffect(new_state, shared, leftlist, right) ==
    IF right = <<>>
    THEN [out |-> new_state, left |-> leftlist]
    ELSE LET m == Head(right)
             inplace == Get(m, "type") # "remove-ui"
             next == LoopBody(new_state, m)
         IN  LoopEffect(next, shared /\ inplace,
                        IF shared /\ inplace THEN next ELSE leftlist, Tail(right))

\* The caller's left argument as the call leaves it.
LeftAfter(left, right) ==
    IF left.py = "list"
    THEN PyList(LoopEffect(AsList(left), CopyShares(left), left.v, AsList(right)).left)
    ELSE left

\* The caller's right argument as the call leaves it: the function only
\* iterates over it.
RightAfter(left, right) == right

\* The record of one call of reduce_ui_messages.  The function has no raise
\* statement and reads dict events with .get only, so it returns for every
\* argument drawn here.
ReduceCall(left, right) ==
    [op |-> "reduce", left |-> left, right |-> right, raised |-> FALSE,
     out |-> reduce_ui_messages(left, right),
     left_after |-> LeftAfter(left, right), right_after |-> RightAfter(left, right)]

\* --------------------------------------------------------------- producers

\* Mutant of MessageId: the id is read from attributes only.
MessageIdAttrOnly(message) ==
    IF TruthyObj(message) /\ HasAttr(message, "id") THEN message.v.id ELSE None

\* message_id as lines 91-96 leave it.
MessageId(message) ==
    IF TruthyObj(message)
    THEN IF message.py = "dict" /\ "id" \in DOMAIN message.v
         THEN Get(message.v, "id")
         ELSE IF HasAttr(message, "id") THEN message.v.id ELSE None
    ELSE None

\* config.get("metadata") or {}.
ConfigMetadata(cfg) ==
    IF "metadata" \in DOMAIN cfg /\ TruthyObj(cfg.metadata) THEN cfg.metadata.v ELSE EmptyDict

\* metadata or {}.
OrEmpty(metadata) == IF TruthyObj(metadata) THEN metadata.v ELSE EmptyDict

\* The three keys read from the run context.
RunKeys(cfg) ==
    [tags |-> Get(cfg, "tags"), name |-> Get(cfg, "run_name"), run_id |-> Get(cfg, "run_id")]

\* Mutant of Metadata: the run context is merged last.
MetadataAmbientLast(cfg, metadata, message_id) ==
    Merge(Merge(Merge(OrEmpty(metadata),
                      IF Truthy(message_id) THEN [message_id |-> message_id] ELSE EmptyDict),
                ConfigMetadata(cfg)),
          RunKeys(cfg))

\* The "metadata" entry of evt.
Metadata(cfg, metadata, message_id) ==
    Merge(Merge(Merge(ConfigMetadata(cfg), RunKeys(cfg)), OrEmpty(metadata)),
          IF Truthy(message_id) THEN [message_id |-> message_id] ELSE EmptyDict)

\* Mutant of EventId: the token is minted once and reused by every call.
EventIdMintedOnce(id, n) == IF Truthy(id) THEN id ELSE Uuid(1)

\* Mutant of EventId: the caller's id is used as given.
EventIdAsGiven(id, n) == id

\* id or str(uuid4()), n uuid4 tokens having been minted before.
EventId(id, n) == IF Truthy(id) THEN id ELSE Uuid(n + 1)

\* Mutant of SendArg: the update is always keyed "ui".
SendArgDefaultKey(state_key, evt) == << <<"ui", evt>> >>

\* [(state_key, evt)]: the list handed to config[CONF][CONFIG_KEY_SEND].
SendArg(state_key, evt) == << <<state_key, evt>> >>

\* Mutant of SendReached: the send is made whatever the writer did.
SendReachedAlways(wfail) == TRUE

\* Whether control reaches the send: an exception raised by writer(evt) leaves
\* the function at once, nothing catches it.
SendReached(wfail) == ~wfail

\* Mutant of Raises: channel failures are swallowed.
RaisesNever(wfail, sfail) == FALSE

\* Whether the call ends by an exception: either channel call raising does it.
Raises(wfail, sfail) == wfail \/ sfail

\* ------------------------------------------------------------ input domains

\* Events handed to the reducer: two upserts sharing an id, an upsert with
\* another id, a removal for each id, and a dict of neither type.
ReduceEvents ==
    { UIMessage("a", "Chat", "p1", EmptyDict),
      UIMessage("a", "Chat", "p2", EmptyDict),
      UIMessage("b", "Chat", "p1", EmptyDict),
      RemoveUIMessage("a"),
      RemoveUIMessage("b"),
      [type |-> "other", id |-> "a"] }

RECURSIVE SeqsUpTo(_, _)
\* All sequences over S of length at most n.
SeqsUpTo(S, n) ==
    IF n = 0
    THEN { <<>> }
    ELSE LET shorter == SeqsUpTo(S, n - 1)
         IN  shorter \cup { Append(s, e) : s \in shorter, e \in S }

\* Arguments of the reducer: a bare event or a list of at most n events.
ReduceArgs(n) ==
    { PyDict(e) : e \in ReduceEvents } \cup { PyList(s) : s \in SeqsUpTo(ReduceEvents, n) }

\* Component names and props handed to push_ui_message.
Names == {"Chat", "Card"}

Props == {"p1", "p2"}

\* Run contexts: an empty one; metadata {"a": 1} with tags ["x"]; metadata that
\* itself has the keys tags and message_id, with every run key set; and one
\* whose metadata is None.
Configs ==
    { EmptyDict,
      [metadata |-> PyDict([a |-> "1"]), tags |-> "['x']"],
      [metadata |-> PyDict([a |-> "1", tags |-> "t-amb", message_id |-> "m-amb"]),
       tags |-> "['x']", run_name |-> "run", run_id |-> "r1"],
      [metadata |-> PyNone, run_name |-> "run"] }

\* The metadata argument: absent, empty, overriding an ambient key, and
\* overriding a run key and message_id.
Metadatas ==
    { PyNone,
      PyDict(EmptyDict),
      PyDict([a |-> "2"]),
      PyDict([a |-> "2", run_id |-> "r-call", message_id |-> "m-call"]) }

\* The message argument: absent; dicts without id, with an id and with an
\* empty id; objects with an id attribute, with id None and without one.
Messages ==
    { PyNone,
      PyDict(EmptyDict),
      PyDict([content |-> "hi"]),
      PyDict([id |-> "m1"]),
      PyDict([id |-> ""]),
      PyObject([id |-> "m2", content |-> "hi"]),
      PyObject([id |-> None, content |-> "hi"]),
      PyObject([content |-> "hi"]) }

\* State keys: the default and another one.
StateKeys == {"ui", "side"}

\* ------------------------------------------------------------------- state

NoCall == [op |-> "none", n |-> 0]

\* A run context without metadata, tags, run name or run id.
DefaultConfig == EmptyDict

InitReduce ==
    /\ ui = <<>>
    /\ folds = <<>>
    /\ rcall = NoCall
    /\ calls = <<>>

InitEmit ==
    /\ stream = <<>>
    /\ writes = <<>>
    /\ minted = 0
    /\ pcall = NoCall

Init ==
    /\ InitReduce
    /\ InitEmit
    /\ config = DefaultConfig

\* "writer(evt); config[CONF][CONFIG_KEY_SEND]([(state_key, evt)]); return evt"
\* with the channels' behaviour given: wfail, writer(evt) raises and accepts
\* nothing; sfail, the send raises and accepts nothing.  call holds the
\* operation's name and arguments.
Deliver(call, evt, state_key, wfail, sfail) ==
    LET sent == IF SendReached(wfail) THEN <<SendArg(state_key, evt)>> ELSE <<>>
        raised == Raises(wfail, sfail /\ sent # <<>>)
    IN  /\ stream' = IF wfail THEN stream ELSE Append(stream, evt)
        /\ writes' = IF sent # <<>> /\ ~sfail THEN writes \o sent[1] ELSE writes
        /\ pcall' = Merge(call,
                          [n |-> pcall.n + 1, state_key |-> state_key,
                           wfail |-> wfail, sfail |-> sfail,
                           emitted |-> <<evt>>, sent |-> sent, raised |-> raised,
                           returned |-> IF raised THEN <<>> ELSE <<evt>>])

\* push_ui_message(name, props, id=id, metadata=metadata, message=message,
\* state_key=state_key).
push_ui_message(name, props, id, metadata, message, state_key, wfail, sfail) ==
    /\ pcall.n < MaxCalls
    /\ LET message_id == MessageId(message)
           evt == UIMessage(EventId(id, minted), name, props,
                            Metadata(config, metadata, message_id))
       IN  Deliver([op |-> "push", name |-> name, props |-> props, id |-> id,
                    metadata |-> metadata, message |-> message,
                    message_id |-> message_id],
                   evt, state_key, wfail, sfail)
    /\ minted' = IF Truthy(id) THEN minted ELSE minted + 1
    /\ UNCHANGED <<ui, folds, rcall, calls, config>>

\* remove_ui_message(id, state_key=state_key).
remove_ui_message(id, state_key, wfail, sfail) ==
    /\ pcall.n < MaxCalls
    /\ Deliver([op |-> "remove", id |-> id], RemoveUIMessage(id), state_key, wfail, sfail)
    /\ UNCHANGED <<ui, folds, rcall, calls, config, minted>>

\* Ids a caller can hand to remove_ui_message: a fixed one, the empty string
\* and the id of any event a producer emitted before.
RemoveIds == {"a", ""} \cup { Get(stream[i], "id") : i \in DOMAIN stream }

\* Producers on the default state key with channels that accept every event.
NextEmit ==
    \/ \E name \in Names, props \in Props, id \in {None, "", "a"} :
           push_ui_message(name, props, id, PyNone, PyNone, "ui", FALSE, FALSE)
    \/ \E id \in RemoveIds :
           remove_ui_message(id, "ui", FALSE, FALSE)

SpecEmit == Init /\ [][NextEmit]_vars

\* Producers on either state key with channels that may raise.
NextChan ==
    \/ \E id \in {None, "a"}, state_key \in StateKeys, wfail \in BOOLEAN, sfail \in BOOLEAN :
           push_ui_message("Chat", "p1", id, PyNone, PyNone, state_key, wfail, sfail)
    \/ \E state_key \in StateKeys, wfail \in BOOLEAN, sfail \in BOOLEAN :
           remove_ui_message("a", state_key, wfail, sfail)

SpecChan == Init /\ [][NextChan]_vars

\* push_ui_message under every run context, metadata and message.
InitMeta ==
    /\ InitReduce
    /\ InitEmit
    /\ config \in Configs

NextMeta ==
    /\ pcall.n < MaxMetaCalls
    /\ \E metadata \in Metadatas, message \in Messages :
           push_ui_message("Chat", "p1", "a", metadata, message, "ui", FALSE, FALSE)

SpecMeta == InitMeta /\ [][NextMeta]_vars

RECURSIVE Flatten(_)
\* The events of a sequence of reducer arguments, in order.
Flatten(args) ==
    IF args = <<>> THEN <<>> ELSE AsList(Head(args)) \o Flatten(Tail(args))

\* Every event folded into ui so far, in fold order.
Applied == Flatten(folds)

\* The state is folded: ui becomes reduce_ui_messages(ui, right).
Fold(right) ==
    /\ Len(folds) < MaxFolds
    /\ Len(Applied) + Len(AsList(right)) <= MaxApplied
    /\ LET call == ReduceCall(PyList(ui), right)
       IN  /\ ui' = call.out
           /\ rcall' = call
           /\ calls' = Append(calls, call)
    /\ folds' = Append(folds, right)
    /\ UNCHANGED <<config, stream, writes, minted, pcall>>

\* Every argument that keeps the history within MaxApplied events.
NextReduce == \E right \in ReduceArgs(MaxApplied - Len(Applied)) : Fold(right)

SpecReduce == Init /\ [][NextReduce]_vars

\* reduce_ui_messages(left, right) called directly, on any two arguments.
Call(left, right) ==
    /\ LET call == ReduceCall(left, right)
       IN  /\ rcall' = call
           /\ calls' = Append(calls, call)
    /\ UNCHANGED <<ui, folds, config, stream, writes, minted, pcall>>

\* One direct call, on every pair of arguments: bare events of either kind
\* and lists of at most MaxArgLen events.
NextCall ==
    /\ calls = <<>>
    /\ \E left \in ReduceArgs(MaxArgLen), right \in ReduceArgs(MaxArgLen) : Call(left, right)

SpecCall == Init /\ [][NextCall]_vars

\* Arguments of repeated direct calls.
RepeatArgs ==
    { PyList(<<>>),
      PyDict(UIMessage("a", "Chat", "p1", EmptyDict)),
      PyList(<<UIMessage("b", "Chat", "p1", EmptyDict), UIMessage("a", "Chat", "p2", EmptyDict)>>),
      PyList(<<RemoveUIMessage("a"), UIMessage("a", "Chat", "p2", EmptyDict)>>) }

\* Several direct calls in a row, the same arguments coming back.
NextRepeat ==
    /\ Len(calls) < MaxRepeat
    /\ \E left \in RepeatArgs, right \in RepeatArgs : Call(left, right)

SpecRepeat == Init /\ [][NextRepeat]_vars

Next == NextReduce \/ NextEmit \/ NextChan \/ NextMeta \/ NextCall \/ NextRepeat

Spec == Init /\ [][Next]_vars

\* ------------------------------------------------------- reducer properties

IsRemove(e) == Get(e, "type") = "remove-ui"

IsUI(e) == Get(e, "type") = "ui"

\* The elements of a sequence.
Range(s) == { s[i] : i \in DOMAIN s }

\* The last reduce call took one event e as right.
ReducedOne(e) == rcall.op = "reduce" /\ AsList(rcall.right) = <<e>>

\* The last reduce call took a collection as left: a list of UI messages.
ReducedCollection ==
    rcall.op = "reduce" /\ \A x \in Range(AsList(rcall.left)) : IsUI(x)

\* C1 (as claimed): reduce(C, remove(X)) returns exactly the entries of C whose
\* id differs from X, in their original order.
C1_RemoveDropsExactlyMatches ==
    \A X \in {"a", "b"} :
        (ReducedCollection /\ ReducedOne(RemoveUIMessage(X))) =>
            rcall.out = SelectSeq(AsList(rcall.left), LAMBDA x : Get(x, "id") # X)

\* C2 (as claimed): reduce(C, remove(X)) with no entry of C carrying X returns C
\* unchanged, and raises no error.
C2_RemoveAbsentIsNoOp ==
    \A X \in {"a", "b"} :
        (/\ ReducedCollection
         /\ ReducedOne(RemoveUIMessage(X))
         /\ \A x \in Range(AsList(rcall.left)) : Get(x, "id") # X)
        => (~rcall.raised /\ rcall.out = AsList(rcall.left))

\* C3: an upsert in the incoming batch is appended at the end of the result
\* whether or not its id is already present: a batch of upserts only is
\* appended whole, nothing in left is replaced, and a batch ending in an
\* upsert gives a result ending in that upsert.
C3_UpsertAppends ==
    rcall.op = "reduce" =>
        LET left == AsList(rcall.left)
            right == AsList(rcall.right)
        IN  /\ (\A e \in Range(right) : IsUI(e)) => rcall.out = left \o right
            /\ (right # <<>> /\ IsUI(right[Len(right)]))
                   => (rcall.out # <<>> /\ rcall.out[Len(rcall.out)] = right[Len(right)])

\* C3 witness: reduce([U1], [U2]) with U1.id = U2.id returned [U1, U2].
C3_Witness ==
    /\ rcall.op = "reduce"
    /\ rcall.left = PyList(<<UIMessage("a", "Chat", "p1", EmptyDict)>>)
    /\ rcall.right = PyList(<<UIMessage("a", "Chat", "p2", EmptyDict)>>)
    /\ rcall.out = <<UIMessage("a", "Chat", "p1", EmptyDict),
                     UIMessage("a", "Chat", "p2", EmptyDict)>>

\* Every fold so far took exactly one event, an upsert.
OneUpsertAtATime ==
    \A i \in DOMAIN folds :
        Len(AsList(folds[i])) = 1 /\ IsUI(AsList(folds[i])[1])

\* C4: from the empty collection, after n upserts folded one reduce call at a
\* time, the collection is exactly those n events in the order folded.
C4_UpsertsKeepFoldOrder ==
    OneUpsertAtATime => ui = [i \in DOMAIN folds |-> AsList(folds[i])[1]]

\* C4 witness: three upserts were folded one call at a time, two of them with
\* the same id, the first one bare and the last one in a list.
C4_Witness ==
    /\ OneUpsertAtATime
    /\ Len(folds) = 3
    /\ folds[1].py = "dict"
    /\ folds[3].py = "list"
    /\ Get(ui[1], "id") = "b"
    /\ Get(ui[2], "id") = "a"
    /\ Get(ui[3], "id") = "a"
    /\ ui[2] # ui[3]

\* C6: folding from the empty collection never stores a removal event, and
\* while every folded event is an upsert or a removal every entry is an upsert.
C6_NoRemovalStored ==
    /\ \A x \in Range(ui) : ~IsRemove(x)
    /\ (\A e \in Range(Applied) : IsUI(e) \/ IsRemove(e)) => \A x \in Range(ui) : IsUI(x)

\* C6 witness: a batch mixing a removal and upserts was folded and left entries.
C6_Witness ==
    /\ \A e \in Range(Applied) : IsUI(e) \/ IsRemove(e)
    /\ \E i \in DOMAIN folds : \E j \in DOMAIN AsList(folds[i]) :
           /\ IsRemove(AsList(folds[i])[j])
           /\ j < Len(AsList(folds[i]))
    /\ Len(ui) >= 2

\* An event whose type is neither "ui" nor "remove-ui".
IsOther(e) == ~IsUI(e) /\ ~IsRemove(e)

\* C7 (as claimed): reduce rejects an incoming event whose kind is neither upsert
\* nor remove, and never appends it to the returned collection.
C7_OtherKindRejected ==
    rcall.op = "reduce" =>
        \A e \in Range(AsList(rcall.right)) :
            IsOther(e) => (rcall.raised /\ e \notin Range(rcall.out))

\* C7 (amended): reduce does not reject an incoming event whose kind is neither
\* upsert nor remove: the call returns, the event is appended like an upsert
\* and it is never treated as a removal, so a batch without removal events is
\* appended whole to left.
C7_OtherKindAppended ==
    rcall.op = "reduce" =>
        LET left == AsList(rcall.left)
            right == AsList(rcall.right)
        IN  (\E e \in Range(right) : IsOther(e)) =>
                /\ ~rcall.raised
                /\ (\A e \in Range(right) : ~IsRemove(e)) => rcall.out = left \o right
                /\ IsOther(right[Len(right)]) => rcall.out[Len(rcall.out)] = right[Len(right)]

\* C7 witness: an event of another kind was folded into a non-empty collection.
C7_Witness ==
    /\ ReducedOne([type |-> "other", id |-> "a"])
    /\ rcall.left = PyList(<<UIMessage("a", "Chat", "p1", EmptyDict)>>)
    /\ rcall.out = <<UIMessage("a", "Chat", "p1", EmptyDict), [type |-> "other", id |-> "a"]>>

\* ------------------------------------------------------ producer properties

\* The events sent on the state-patch channel, in order.
SentEvents == [i \in DOMAIN writes |-> writes[i][2]]

\* C5: the event of emitUpsert followed by the event of emitRemoval for that
\* event's id, folded in emission order against the empty collection, gives
\* the empty collection; and whenever a removal is the last event folded, no
\* entry with its id remains.
C5_UpsertThenRemovalFoldsToEmpty ==
    /\ (/\ Len(SentEvents) = 2
         /\ IsUI(SentEvents[1])
         /\ SentEvents[2] = RemoveUIMessage(SentEvents[1].id))
        => reduce_ui_messages(PyList(<<>>), PyList(SentEvents)) = <<>>
    /\ \A n \in DOMAIN SentEvents :
           IsRemove(SentEvents[n]) =>
               \A x \in Range(reduce_ui_messages(PyList(<<>>), PyList(SubSeq(SentEvents, 1, n)))) :
                   Get(x, "id") # SentEvents[n].id

\* C5 witness: an upsert with a minted id was emitted, then the removal of that
\* id, and the two fold to the empty collection.
C5_Witness ==
    /\ Len(SentEvents) = 2
    /\ SentEvents[1] = UIMessage(Uuid(1), "Chat", "p2", Metadata(config, PyNone, None))
    /\ SentEvents[2] = RemoveUIMessage(Uuid(1))
    /\ pcall.op = "remove"
    /\ reduce_ui_messages(PyList(<<>>), PyList(SentEvents)) = <<>>

C9_FailureNotPropagated ==
    (pcall.op # "none" /\ (pcall.wfail \/ pcall.sfail)) =>
        /\ ~pcall.raised
        /\ Len(pcall.emitted) = 1
        /\ Len(pcall.sent) = 1
        /\ pcall.returned = pcall.emitted

\* C9 (amended): a failure of either channel is propagated to the caller and no
\* event is returned; when the emit fails the state-patch send is never
\* attempted and neither channel receives the event; when the send fails the
\* event has already been emitted on the observation channel.
C9_FailurePropagates ==
    pcall.op # "none" =>
        /\ pcall.wfail =>
              /\ pcall.raised
              /\ pcall.returned = <<>>
              /\ Len(pcall.emitted) = 1
              /\ pcall.sent = <<>>
              /\ Len(stream) < pcall.n
              /\ Len(writes) < pcall.n
        /\ (pcall.sfail /\ ~pcall.wfail) =>
              /\ pcall.raised
              /\ pcall.returned = <<>>
              /\ Len(pcall.emitted) = 1
              /\ Len(pcall.sent) = 1
              /\ stream # <<>> /\ stream[Len(stream)] = pcall.emitted[1]
              /\ Len(writes) < Len(stream)

\* C9 witness: an emit failed in one call and a send failed in a later one.
C9_Witness ==
    /\ pcall.op = "push"
    /\ pcall.n = 2
    /\ pcall.sfail /\ ~pcall.wfail
    /\ pcall.raised
    /\ Len(stream) = 1
    /\ writes = <<>>

\* C10: the metadata of the event built by emitUpsert is the right-biased merge
\* of the ambient run metadata, the keys tags, name and run_id read from the
\* run context, the caller's metadata and the derived message_id: each key's
\* value comes from the last of these sources that defines it.
C10_MetadataPrecedence ==
    pcall.op = "push" =>
        LET md == pcall.emitted[1].metadata
            ambient == ConfigMetadata(config)
            caller == OrEmpty(pcall.metadata)
            derived == pcall.message_id # None /\ pcall.message_id # ""
            Last(k) ==
                IF k = "message_id" /\ derived THEN pcall.message_id
                ELSE IF k \in DOMAIN caller THEN caller[k]
                ELSE IF k = "tags" THEN Get(config, "tags")
                ELSE IF k = "name" THEN Get(config, "run_name")
                ELSE IF k = "run_id" THEN Get(config, "run_id")
                ELSE ambient[k]
        IN  /\ DOMAIN md = DOMAIN ambient \cup {"tags", "name", "run_id"} \cup DOMAIN caller
                               \cup (IF derived THEN {"message_id"} ELSE {})
            /\ \A k \in DOMAIN md : md[k] = Last(k)

\* C10 witness: the caller's "a" overrode the ambient one, the run's tags
\* overrode the ambient metadata's tags, the caller's run_id overrode the
\* run's, and the derived message_id overrode the caller's.
C10_Witness ==
    /\ pcall.op = "push"
    /\ Get(ConfigMetadata(config), "a") = "1"
    /\ Get(ConfigMetadata(config), "tags") = "t-amb"
    /\ Get(config, "run_id") = "r1"
    /\ Get(OrEmpty(pcall.metadata), "message_id") = "m-call"
    /\ pcall.message_id = "m1"
    /\ pcall.returned[1].metadata =
           [a |-> "2", tags |-> "['x']", name |-> "run", run_id |-> "r-call",
            message_id |-> "m1"]

\* The ids of the upserts emitted before the last call's event.
EarlierUpsertIds ==
    { Get(stream[i], "id") : i \in { j \in DOMAIN stream : j < Len(stream) /\ IsUI(stream[j]) } }

\* C11: the event returned by emitUpsert carries the caller's id when the
\* caller supplies one (a non-empty string), and otherwise a freshly minted
\* token that differs from the id of every upsert emitted before it.
C11_CallerIdOrFreshToken ==
    (pcall.op = "push" /\ ~pcall.raised) =>
        LET evt == pcall.returned[1]
        IN  /\ (pcall.id # None /\ pcall.id # "") => evt.id = pcall.id
            /\ (pcall.id = None \/ pcall.id = "") =>
                  /\ evt.id \notin {None, ""}
                  /\ evt.id \notin EarlierUpsertIds
                  /\ stream[Len(stream)] = evt

\* C11 witness: the third upsert was given no id, after one with a minted id
\* and one with the caller's id, and carries a token neither of them has.
C11_Witness ==
    /\ pcall.op = "push"
    /\ pcall.id = None
    /\ Len(stream) = 3
    /\ stream[1].id = Uuid(1)
    /\ stream[2].id = "a"
    /\ pcall.returned[1].id = Uuid(2)

\* The message_id the metadata has without the producer adding one: the
\* caller's, else the ambient one, else none.
MessageIdNotAdded(md) ==
    LET other == Merge(ConfigMetadata(config), OrEmpty(pcall.metadata))
    IN  /\ ("message_id" \in DOMAIN md) = ("message_id" \in DOMAIN other)
        /\ Get(md, "message_id") = Get(other, "message_id")

\* C12 (as claimed): if the message is a mapping containing the key id, the
\* emitted metadata has message_id equal to that key's value; otherwise, if the
\* message has an id attribute, message_id equals that attribute; otherwise the
\* producer adds no message_id key.
C12_MessageIdFromMessage ==
    pcall.op = "push" =>
        LET msg == pcall.message
            md == pcall.emitted[1].metadata
        IN  IF msg.py = "dict" /\ "id" \in DOMAIN msg.v
            THEN "message_id" \in DOMAIN md /\ md.message_id = msg.v.id
            ELSE IF msg.py = "object" /\ "id" \in DOMAIN msg.v
            THEN "message_id" \in DOMAIN md /\ md.message_id = msg.v.id
            ELSE MessageIdNotAdded(md)

\* C12 (amended): the id of the message is the value under the key id of a
\* non-empty mapping, else its id attribute; the emitted metadata has
\* message_id equal to it when it is neither None nor empty, and otherwise
\* (also when the message has no id or no message is passed) the producer
\* adds no message_id key.
C12_TruthyMessageIdFromMessage ==
    pcall.op = "push" =>
        LET msg == pcall.message
            md == pcall.emitted[1].metadata
            found == \/ msg.py = "dict" /\ "id" \in DOMAIN msg.v
                     \/ msg.py = "object" /\ "id" \in DOMAIN msg.v
        IN  IF found /\ msg.v.id # None /\ msg.v.id # ""
            THEN "message_id" \in DOMAIN md /\ md.message_id = msg.v.id
            ELSE MessageIdNotAdded(md)

\* C12 witness: a mapping's id became message_id in one call, and in the next
\* a message whose id attribute is None left the caller's message_id in place.
C12_Witness ==
    /\ pcall.op = "push"
    /\ Len(stream) = 2
    /\ Get(stream[1].metadata, "message_id") = "m1"
    /\ pcall.message = PyObject([id |-> None, content |-> "hi"])
    /\ Get(OrEmpty(pcall.metadata), "message_id") = "m-call"
    /\ Get(pcall.returned[1].metadata, "message_id") = "m-call"

\* ---------------------------------------------------- direct-call properties

\* C13: a bare event is treated as the one-element list holding it, in either
\* argument position: reduce(e, s) = reduce([e], s) and reduce(s, e) = reduce(s, [e]).
C13_BareEventIsSingleton ==
    rcall.op = "reduce" =>
        /\ rcall.left.py = "dict" =>
              rcall.out = reduce_ui_messages(PyList(<<rcall.left.v>>), rcall.right)
        /\ rcall.right.py = "dict" =>
              rcall.out = reduce_ui_messages(rcall.left, PyList(<<rcall.right.v>>))
        /\ (rcall.left.py = "dict" /\ rcall.right.py = "dict" /\ ~IsRemove(rcall.right.v)) =>
              rcall.out = <<rcall.left.v, rcall.right.v>>

\* C13 witness: reduce was called on two bare upserts and returned the list of
\* the two.
C13_Witness ==
    /\ rcall.op = "reduce"
    /\ rcall.left = PyDict(UIMessage("a", "Chat", "p1", EmptyDict))
    /\ rcall.right = PyDict(UIMessage("b", "Chat", "p1", EmptyDict))
    /\ rcall.out = <<UIMessage("a", "Chat", "p1", EmptyDict), UIMessage("b", "Chat", "p1", EmptyDict)>>

C15_ArgumentsUnchanged ==
    rcall.op = "reduce" =>
        /\ rcall.left_after = rcall.left
        /\ rcall.right_after = rcall.right

\* C15 witness: a list was reduced with a batch of an upsert, a removal and an
\* upsert; the result differs from the list, which is as it was.
C15_Witness ==
    /\ rcall.op = "reduce"
    /\ rcall.left = PyList(<<UIMessage("a", "Chat", "p1", EmptyDict)>>)
    /\ rcall.right = PyList(<<UIMessage("b", "Chat", "p1", EmptyDict), RemoveUIMessage("b")>>)
    /\ rcall.out = <<>>
    /\ rcall.left_after = PyList(<<UIMessage("a", "Chat", "p1", EmptyDict)>>)
    /\ rcall.right_after = rcall.right

\* C16: folding does not depend on how the event log is cut into batches:
\* reduce(reduce(C, A), B) = reduce(C, A followed by B) for consecutive folds
\* A and B of a collection C, and the collection folded batch by batch from
\* the empty one equals the whole log folded as one batch or one event at a
\* time.
C16_BatchCutIndependent ==
    /\ \A i \in DOMAIN calls :
           i < Len(calls) =>
               /\ calls[i + 1].left = PyList(calls[i].out)
               /\ calls[i + 1].out =
                      reduce_ui_messages(calls[i].left,
                                         PyList(AsList(calls[i].right) \o AsList(calls[i + 1].right)))
    /\ ui = reduce_ui_messages(PyList(<<>>), PyList(Applied))
    /\ Len(Applied) = 2 =>
           ui = reduce_ui_messages(PyList(reduce_ui_messages(PyList(<<>>), PyDict(Applied[1]))),
                                   PyDict(Applied[2]))

\* C16 witness: three events were folded in two batches, an upsert and a
\* removal in the first and an upsert alone in the second.
C16_Witness ==
    /\ Len(folds) = 2
    /\ Len(AsList(folds[1])) = 2
    /\ IsUI(AsList(folds[1])[1])
    /\ IsRemove(AsList(folds[1])[2])
    /\ folds[2] = PyDict(UIMessage("b", "Chat", "p1", EmptyDict))
    /\ ui = <<UIMessage("b", "Chat", "p1", EmptyDict)>>

C18_NoRemovalReturned ==
    rcall.op = "reduce" => \A x \in Range(rcall.out) : ~IsRemove(x)

\* C18 (amended): the returned collection contains no removal event taken
\* from incoming; the removal events of current, a bare one included, are not
\* filtered and are returned as they are when incoming contains no removal
\* event; a current without removal events gives a result without them.
C18_OnlyRemovalsOfCurrentReturned ==
    rcall.op = "reduce" =>
        LET left == AsList(rcall.left)
            right == AsList(rcall.right)
        IN  /\ \A x \in Range(rcall.out) : IsRemove(x) => x \in Range(left)
            /\ (\A e \in Range(right) : ~IsRemove(e)) =>
                   SelectSeq(rcall.out, IsRemove) = SelectSeq(left, IsRemove)
            /\ (\A e \in Range(left) : ~IsRemove(e)) =>
                   \A x \in Range(rcall.out) : ~IsRemove(x)

\* C18 witness: current was a bare removal event and incoming the empty list;
\* the result holds the removal event.
C18_Witness ==
    /\ rcall.op = "reduce"
    /\ rcall.left = PyDict(RemoveUIMessage("a"))
    /\ rcall.right = PyList(<<>>)
    /\ rcall.out = <<RemoveUIMessage("a")>>

\* An event whose id is missing, None or empty.
NoId(e) == Get(e, "id") = None \/ Get(e, "id") = ""

\* C19 (as claimed): an event with a missing or empty id is rejected by the
\* producer that would construct it, and no such event is ever emitted on a
\* channel.
C19_EmptyIdRejected ==
    /\ \A e \in Range(stream) : ~NoId(e)
    /\ \A e \in Range(SentEvents) : ~NoId(e)
    /\ (pcall.op # "none" /\ NoId(pcall.emitted[1])) => pcall.raised

\* C19 (amended): no operation rejects an id.  emitUpsert replaces a missing or
\* empty id by a minted token, so every upsert it emits has a non-empty id and
\* the collection folded from the emitted events stores no entry without one;
\* emitRemoval emits the id it is given, the empty one included; reduce stores
\* an upsert with a missing or empty id as it is.
C19_EmptyIdNotRejected ==
    /\ pcall.op # "none" => ~pcall.raised
    /\ \A e \in Range(stream) \cup Range(SentEvents) : IsUI(e) => ~NoId(e)
    /\ pcall.op = "remove" =>
           /\ pcall.returned = <<RemoveUIMessage(pcall.id)>>
           /\ stream[Len(stream)] = RemoveUIMessage(pcall.id)
           /\ SentEvents[Len(SentEvents)] = RemoveUIMessage(pcall.id)
    /\ \A x \in Range(reduce_ui_messages(PyList(<<>>), PyList(SentEvents))) : ~NoId(x)
    /\ LET empty == UIMessage("", "Chat", "p1", EmptyDict)
           missing == [type |-> "ui", name |-> "Chat", props |-> "p1", metadata |-> EmptyDict]
       IN  reduce_ui_messages(PyList(SentEvents), PyList(<<empty, missing>>))
               = SentEvents \o <<empty, missing>>

\* C19 witness: emitUpsert was given the empty id and emitted a minted one,
\* then emitRemoval was given the empty id and emitted it.
C19_Witness ==
    /\ pcall.op = "remove"
    /\ pcall.id = ""
    /\ ~pcall.raised
    /\ Len(stream) = 3
    /\ stream[1].id = "a"
    /\ stream[2].id = Uuid(1)
    /\ stream[3] = RemoveUIMessage("")
    /\ SentEvents = stream

====
